---- MODULE Spec2Model ----
(***************************************************************************)
(* Service discovery of dd-agent: the config store singleton               *)
(* (utils/service_discovery/config_stores.py) and the docker backend       *)
(* (utils/service_discovery/sd_backend.py).                                *)
(*                                                                         *)
(* Python values are modelled as follows.  A call either returns a value   *)
(* or raises: Ret(v) / Raise(exception class).  A string that may hold     *)
(* placeholders, separators or prefixes is a sequence of tokens, each      *)
(* token an atomic piece of text ("%%host%%", "datadog_", "=", "//").      *)
(* None is the empty tuple where the value is a tuple, and the string      *)
(* "None" where it is a string.                                            *)
(***************************************************************************)
EXTENDS Integers, Sequences, FiniteSets, TLC

VARIABLES
    store,      \* ConfigStore._instance and the attributes of that object
    heap,       \* number of objects (stores, clients) allocated so far
    sd,         \* the SDDockerBackend object: agentConfig and config_store
    op,         \* the last call made: its name, its inputs, what it returned
    run         \* the last get_configs pass: containers, those resolved, result

vars == <<store, heap, sd, op, run>>

\* ---------------------------------------------------------------- bounds

MaxAlloc == 5

MaxContainers == 3

\* ------------------------------------------------------- python results

Ret(v) == [kind |-> "ret", val |-> v]

Raise(e) == [kind |-> "raise", exc |-> e]

None == << >>

\* ------------------------------------------------- templates as values

\* A leaf of a decoded JSON mapping: a string (token sequence), a number,
\* or a list holding one string.
Str(toks) == [t |-> "str", v |-> toks]

Num == [t |-> "num", v |-> << >>]

List(toks) == [t |-> "list", v |-> toks]

\* A JSON text as read from a store or dumped from the catalog: valid or
\* not, and when valid the value it decodes to (null, or a mapping).
Json(doc) == [valid |-> TRUE, null |-> FALSE, doc |-> doc]

JsonNull == [valid |-> TRUE, null |-> TRUE, doc |-> << >>]

BadJson == [valid |-> FALSE, null |-> FALSE, doc |-> << >>]

\* ------------------------------------------------------ config_stores.py

DEFAULT_ETCD_HOST == "127.0.0.1"

DEFAULT_ETCD_PORT == 4001

DEFAULT_ETCD_PROTOCOL == "http"

DEFAULT_RECO == TRUE

SD_TEMPLATE_DIR == "/datadog/check_configs"

DEFAULT_CONSUL_HOST == "127.0.0.1"

DEFAULT_CONSUL_PORT == 8500

DEFAULT_CONSUL_SCHEME == "http"

DEFAULT_CONSUL_CONSISTENCY == "default"

DEFAULT_CONSUL_VERIFY == TRUE

AUTO_CONF_IMAGES ==
    [redis |-> "redisdb", nginx |-> "nginx", consul |-> "consul",
     elasticsearch |-> "elastic"]

\* The agent configurations handed to ConfigStore(agentConfig=...): what
\* extract_sd_config builds, sd_backend_host being optional ("unset").
AgentConfigs ==
    { [sd_config_backend |-> b, sd_backend_host |-> h, sd_template_dir |-> d] :
        b \in {"etcd", "consul", "None", "zookeeper"},
        h \in {"unset", "10.0.0.9"},
        d \in {SD_TEMPLATE_DIR} }
    \cup
    { [sd_config_backend |-> b, sd_backend_host |-> "unset", sd_template_dir |-> "/alt"] :
        b \in {"etcd", "None"} }

\* An object that has no agentConfig attribute yet.
NoConfig ==
    [sd_config_backend |-> "None", sd_backend_host |-> "unset", sd_template_dir |-> "None"]

cfg_get(config, dflt) ==
    IF config.sd_backend_host = "unset" THEN dflt ELSE config.sd_backend_host

NoSettings == [host |-> "None", port |-> 0, extra |-> "None"]

\* StubStore._extract_settings / EtcdStore._extract_settings /
\* ConsulStore._extract_settings, dispatched on the class of the object.
extract_settings(type, config) ==
    CASE type = "EtcdStore" ->
            [host |-> cfg_get(config, DEFAULT_ETCD_HOST), port |-> DEFAULT_ETCD_PORT,
             extra |-> DEFAULT_ETCD_PROTOCOL]
      [] type = "ConsulStore" ->
            [host |-> cfg_get(config, DEFAULT_CONSUL_HOST), port |-> DEFAULT_CONSUL_PORT,
             extra |-> DEFAULT_CONSUL_CONSISTENCY]
      [] OTHER -> NoSettings

\* A network client object: its identity and the settings it was built from.
NoClient == [id |-> 0, settings |-> NoSettings]

NewClient(id, settings) == [id |-> id, settings |-> settings]

\* ConfigStore._instance is None.
NoStore ==
    [type |-> "None", id |-> 0, agentConfig |-> NoConfig, settings |-> NoSettings,
     client |-> NoClient, sd_template_dir |-> "None"]

\* ConfigStore.__new__: the class of the object created for a configuration,
\* "None" when no branch matches.
new_type(agentConfig) ==
    CASE agentConfig.sd_config_backend = "etcd" -> "EtcdStore"
      [] agentConfig.sd_config_backend = "consul" -> "ConsulStore"
      [] agentConfig.sd_config_backend = "None" -> "StubStore"
      [] OTHER -> "None"

\* get_client(reset) on a store whose client attribute is `client`; `fresh`
\* is the identity a newly built client gets.
get_client(type, client, settings, reset, fresh) ==
    IF type = "StubStore" THEN
        (IF reset THEN Raise("TypeError") ELSE Ret(NoClient))
    ELSE IF client = NoClient \/ reset THEN Ret(NewClient(fresh, settings))
    ELSE Ret(client)

\* ConfigStore.__init__ run on object `self` with `agentConfig`.
init_store(self, agentConfig, fresh) ==
    LET settings == extract_settings(self.type, agentConfig) IN
    [self EXCEPT !.agentConfig = agentConfig,
                 !.settings = settings,
                 !.client = get_client(self.type, NoClient, settings, FALSE, fresh).val,
                 !.sd_template_dir = agentConfig.sd_template_dir]

\* ConfigStore(agentConfig=...): __new__, then __init__ on what __new__
\* returned when that is a ConfigStore (python's type.__call__).
construct(inst, agentConfig, h) ==
    LET created == inst.type = "None" /\ new_type(agentConfig) # "None"
        obj == IF created
               THEN [NoStore EXCEPT !.type = new_type(agentConfig), !.id = h + 1]
               ELSE inst
        h1 == IF created THEN h + 1 ELSE h
    IN  IF obj.type = "None" THEN [inst |-> obj, heap |-> h1]
        ELSE [inst |-> init_store(obj, agentConfig, h1 + 1),
              heap |-> IF obj.type = "StubStore" THEN h1 ELSE h1 + 1]

\* ---------------------------------------------- the auto-config catalog

\* utils.checkfiles.get_check_class: the check class, or "None" when the
\* check is unknown.  `cat` is what the check files on disk hold.
get_check_class(cat, check_name) ==
    IF cat.hasClass THEN check_name ELSE "None"

\* The auto_conf yaml of a check: init_config and a list of instances.
AutoConfYaml(check_name) ==
    IF check_name = "redisdb"
    THEN [none |-> FALSE, init_config |-> JsonNull,
          instances |-> << [host |-> Str(<<"%%host%%">>), port |-> Str(<<"%%port%%">>)] >>]
    ELSE [none |-> FALSE, init_config |-> JsonNull,
          instances |-> << [url |-> Str(<<"http://", "%%host%%", ":", "%%port%%">>)] >>]

NoAutoConf == [none |-> TRUE, init_config |-> JsonNull, instances |-> << >>]

\* utils.checkfiles.get_auto_conf: the yaml of the check, None if unknown.
get_auto_conf(cat, check_name) ==
    IF cat.hasConf THEN AutoConfYaml(check_name) ELSE NoAutoConf

Catalogs == [hasClass : BOOLEAN, hasConf : BOOLEAN]

\* ConfigStore._get_auto_config
get_auto_config(image_name, cat) ==
    IF image_name \notin DOMAIN AUTO_CONF_IMAGES THEN Ret(None)
    ELSE LET check_name == AUTO_CONF_IMAGES[image_name]
             check == get_check_class(cat, check_name)
             auto_conf == get_auto_conf(cat, check_name)
         IN  IF check = "None" THEN Ret(None)
             \* auto_conf.get(...) on None
             ELSE IF auto_conf.none THEN Raise("AttributeError")
             ELSE Ret(<<check_name, auto_conf.init_config,
                        Json(auto_conf.instances[1])>>)

\* ------------------------------------------------------------ store reads

\* What the network client does on one read: it yields a value, reports
\* that the key is absent, times out (urllib3 TimeoutError) or fails
\* with another exception.
Outcomes == {"value", "absent", "timeout", "error"}

\* EtcdStore.client_read / ConsulStore.client_read / ConfigStore.client_read
\* (the one StubStore inherits), on outcome `o` of the network client,
\* `v` being the value stored under the key.
client_read(type, o, v) ==
    CASE type = "EtcdStore" ->
            (CASE o = "value" -> Ret(v)
               [] o = "absent" -> Raise("KeyNotFound")
               [] o = "timeout" -> Raise("TimeoutError")
               [] OTHER -> Raise("Exception"))
      [] type = "ConsulStore" ->
            (CASE o = "value" -> Ret(v)
               [] o = "absent" -> Raise("KeyNotFound")
               [] o = "timeout" -> Raise("TimeoutError")
               [] OTHER -> Raise("Exception"))
      [] OTHER -> Raise("NotImplementedError")

\* path.join(self.sd_template_dir, image, key)
tpl_path(self, image, key) == <<self.sd_template_dir, image, key>>

\* Lines 110-112: the three reads in order, stopping at the first that
\* raises.  `kv` is what the store holds for the image, `outs` the three
\* outcomes of the network client.
read_three(self, image, kv, outs) ==
    LET r1 == client_read(self.type, outs[1], kv[1])
        r2 == client_read(self.type, outs[2], kv[2])
        r3 == client_read(self.type, outs[3], kv[3])
        p1 == tpl_path(self, image, "check_name")
        p2 == tpl_path(self, image, "init_config")
        p3 == tpl_path(self, image, "instance")
    IN  IF r1.kind = "raise" THEN [res |-> r1, reads |-> <<p1>>]
        ELSE IF r2.kind = "raise" THEN [res |-> r2, reads |-> <<p1, p2>>]
        ELSE IF r3.kind = "raise" THEN [res |-> r3, reads |-> <<p1, p2, p3>>]
        ELSE [res |-> Ret(<<r1.val, r2.val, r3.val>>), reads |-> <<p1, p2, p3>>]

\* after_reads with the handler of line 123 falling back to auto-config as
\* the handler of line 113 does.
after_reads_fallback(r, image, cat) ==
    IF r.res.kind = "ret"
    THEN [out |-> r.res, reads |-> r.reads, auto |-> FALSE, caught |-> "none"]
    ELSE [out |-> get_auto_config(image, cat), reads |-> r.reads, auto |-> TRUE,
          caught |-> r.res.exc]

\* Lines 108-127 of get_check_tpl, `r` being what the three reads gave:
\* the try block's result and its two handlers.
after_reads(r, image, cat) ==
    IF r.res.kind = "ret"
    THEN [out |-> r.res, reads |-> r.reads, auto |-> FALSE, caught |-> "none"]
    ELSE IF r.res.exc \in {"KeyNotFound", "TimeoutError"}
    THEN [out |-> get_auto_config(image, cat), reads |-> r.reads, auto |-> TRUE,
          caught |-> r.res.exc]
    ELSE [out |-> Ret(None), reads |-> r.reads, auto |-> FALSE, caught |-> r.res.exc]

\* get_check_tpl whose fallback keeps the check_name it had read before a
\* later read failed, and takes only the rest from the catalog.
get_check_tpl_mixed(self, image, auto_conf, kv, outs, cat) ==
    IF auto_conf
    THEN [out |-> get_auto_config(image, cat), reads |-> << >>, auto |-> TRUE,
          caught |-> "none"]
    ELSE LET a == after_reads(read_three(self, image, kv, outs), image, cat) IN
         IF a.auto /\ Len(a.reads) > 1 /\ a.out.kind = "ret" /\ a.out.val # None
         THEN [a EXCEPT !.out = Ret(<<kv[1], a.out.val[2], a.out.val[3]>>)]
         ELSE a

\* ConfigStore.get_check_tpl.  The result carries, beside what the call
\* returns or raises (out), the store paths it read (reads), whether it
\* called _get_auto_config (auto) and the exception its try block caught
\* (caught, "none" if none).
get_check_tpl(self, image, auto_conf, kv, outs, cat) ==
    IF auto_conf
    THEN [out |-> get_auto_config(image, cat), reads |-> << >>, auto |-> TRUE,
          caught |-> "none"]
    ELSE after_reads(read_three(self, image, kv, outs), image, cat)

\* ------------------------------------------- the ConfigStore singleton

NoSD == [made |-> FALSE, agentConfig |-> NoConfig, config_store |-> 0]

NoRun == [pc |-> "idle", containers |-> << >>, done |-> << >>, out |-> Ret(<< >>)]

InitStore ==
    /\ store = NoStore
    /\ heap = 0
    /\ sd = NoSD
    /\ op = [name |-> "init"]
    /\ run = NoRun

\* ConfigStore(agentConfig=agentConfig)
Construct(agentConfig) ==
    /\ heap + 2 <= MaxAlloc
    /\ LET r == construct(store, agentConfig, heap) IN
        /\ store' = r.inst
        /\ heap' = r.heap
        \* the call returns what __new__ returned (None is id 0); nothing
        \* in __new__ or __init__ raises
        /\ op' = [name |-> "ConfigStore", agentConfig |-> agentConfig, ret |-> r.inst.id,
                  out |-> Ret(r.inst.id)]
    /\ UNCHANGED <<sd, run>>

\* store.get_client(reset=reset)
GetClient(reset) ==
    /\ store.type # "None"
    /\ heap + 1 <= MaxAlloc
    /\ LET r == get_client(store.type, store.client, store.settings, reset, heap + 1) IN
        /\ store' = IF r.kind = "ret" THEN [store EXCEPT !.client = r.val] ELSE store
        /\ heap' = IF r.kind = "ret" /\ r.val.id = heap + 1 THEN heap + 1 ELSE heap
        /\ op' = [name |-> "get_client", reset |-> reset, out |-> r]
    /\ UNCHANGED <<sd, run>>

\* store._drop()
Drop ==
    /\ store.type # "None"
    /\ store' = NoStore
    /\ op' = [name |-> "_drop"]
    /\ UNCHANGED <<heap, sd, run>>

NextStore ==
    \/ \E agentConfig \in AgentConfigs : Construct(agentConfig)
    \/ \E reset \in BOOLEAN : GetClient(reset)
    \/ Drop

SpecStore == InitStore /\ [][NextStore]_vars

\* ------------------------------------------------- placeholders, JSON

\* The tokens PLACEHOLDER_REGEX (%%.+?%%) matches.
PlaceholderTokens == {"%%host%%", "%%port%%", "%%env%%", "%%tags%%"}

\* var.strip('%')
strip_pct(var) ==
    CASE var = "%%host%%" -> "host"
      [] var = "%%port%%" -> "port"
      [] var = "%%env%%" -> "env"
      [] var = "%%tags%%" -> "tags"
      [] OTHER -> var

IsPlaceholder(tok) == tok \in PlaceholderTokens

\* PLACEHOLDER_REGEX.findall(text) on a token sequence: every match, in order.
findall(toks) == SelectSeq(toks, IsPlaceholder)

\* The keys of the mappings of the model, in the order a dump writes them.
KeyOrder == <<"host", "port", "tag", "tags", "url", "count">>

RECURSIVE findall_doc(_, _)
\* PLACEHOLDER_REGEX.findall(str(text)) on the JSON text of mapping `doc`,
\* from key number i on.
findall_doc(doc, i) ==
    IF i > Len(KeyOrder) THEN << >>
    ELSE (IF KeyOrder[i] \in DOMAIN doc THEN findall(doc[KeyOrder[i]].v) ELSE << >>)
         \o findall_doc(doc, i + 1)

\* PLACEHOLDER_REGEX.findall(str(tpl)) on a JSON text as fetched.
findall_json(j) == IF j.valid /\ ~j.null THEN findall_doc(j.doc, 1) ELSE << >>

\* json.loads: the decoded value (null decodes to None, here the empty
\* mapping's tuple), or JSONDecodeError.
json_loads(j) == IF j.valid THEN Ret(j.doc) ELSE Raise("JSONDecodeError")

MapSeq(s, F(_)) == [i \in 1..Len(s) |-> F(s[i])]

\* _get_template_config with a JSONDecodeError leaving the function.
decode_template_raises(t, auto_conf) ==
    [reads |-> t.reads, auto |-> t.auto, auto_conf |-> auto_conf, tpl |-> t.out,
     out |->
       IF t.out.kind = "raise" THEN t.out
       ELSE IF t.out.val = None THEN Ret(None)
       ELSE IF json_loads(t.out.val[2]).kind = "raise" THEN json_loads(t.out.val[2])
       ELSE IF json_loads(t.out.val[3]).kind = "raise" THEN json_loads(t.out.val[3])
       ELSE Ret(<<t.out.val[1], json_loads(t.out.val[2]).val, json_loads(t.out.val[3]).val,
                  MapSeq(findall_json(t.out.val[2]) \o findall_json(t.out.val[3]),
                         strip_pct)>>)]

\* Lines 168-186 of _get_template_config, `t` being what get_check_tpl
\* gave: the placeholders of the two texts, then the texts decoded.
decode_template(t, auto_conf) ==
    [reads |-> t.reads, auto |-> t.auto, auto_conf |-> auto_conf, tpl |-> t.out,
     out |->
       IF t.out.kind = "raise" THEN t.out
       ELSE IF t.out.val = None THEN Ret(None)
       ELSE IF json_loads(t.out.val[2]).kind = "raise"
               \/ json_loads(t.out.val[3]).kind = "raise"
       THEN Ret(None)
       ELSE Ret(<<t.out.val[1], json_loads(t.out.val[2]).val, json_loads(t.out.val[3]).val,
                  MapSeq(findall_json(t.out.val[2]) \o findall_json(t.out.val[3]),
                         strip_pct)>>)]

\* _get_template_config asking for auto-config whatever the backend.
get_template_config_catalog_first(self, cs, image_name, kv, outs, cat) ==
    IF cs.type = "None"
    THEN [out |-> Raise("AttributeError"), reads |-> << >>, auto |-> FALSE,
          auto_conf |-> TRUE, tpl |-> Raise("AttributeError")]
    ELSE decode_template(get_check_tpl(cs, image_name, TRUE, kv, outs, cat), TRUE)

\* SDDockerBackend._get_template_config.  `self` is the backend object,
\* `cs` the object its config_store attribute refers to.
get_template_config(self, cs, image_name, kv, outs, cat) ==
    LET config_backend == self.agentConfig.sd_config_backend
        auto_conf == config_backend = "None"
    IN  IF cs.type = "None"
        \* self.config_store is None: None has no get_check_tpl
        THEN [out |-> Raise("AttributeError"), reads |-> << >>, auto |-> FALSE,
              auto_conf |-> auto_conf, tpl |-> Raise("AttributeError")]
        ELSE decode_template(get_check_tpl(cs, image_name, auto_conf, kv, outs, cat),
                             auto_conf)

\* ------------------------------------------------------------- inputs

Images == {"redis", "nginx", "mysql"}

InitDoc == [tag |-> Str(<<"env:", "%%env%%">>)]

InstDoc == [host |-> Str(<<"%%host%%">>), port |-> Str(<<"%%port%%">>)]

\* What a store holds under <root>/<image>/{check_name,init_config,instance}.
StoreKVs ==
    { <<"custom", Json(InitDoc), Json(InstDoc)>>,
      <<"custom", BadJson, Json(InstDoc)>>,
      <<"custom", Json(InitDoc), BadJson>> }

\* The outcomes of the reads get_check_tpl makes: reads after the first
\* that fails are never made.
ReadPlans ==
    { <<"value", "value", o>> : o \in Outcomes }
    \cup { <<"value", o>> : o \in Outcomes \ {"value"} }
    \cup { <<o>> : o \in Outcomes \ {"value"} }

\* SDDockerBackend.__init__: the config_store attribute and agentConfig.
\* (docker_client and VAR_MAPPING hold no state of their own.)
sd_init(inst, agentConfig, h) ==
    LET r == construct(inst, agentConfig, h) IN
    [store |-> r.inst, heap |-> r.heap,
     sd |-> [made |-> TRUE, agentConfig |-> agentConfig, config_store |-> r.inst.id]]

\* The stores a process may hold when the backend object is created: none
\* yet, or one made earlier by ConfigStore(agentConfig=c).
EarlierStores ==
    {NoStore} \cup
    { construct(NoStore, c, 0).inst :
        c \in {a \in AgentConfigs : a.sd_backend_host = "unset"
                                     /\ a.sd_template_dir = SD_TEMPLATE_DIR} }

\* --------------------------------- template lookup: one call per behaviour

InitTpl ==
    /\ \E early \in EarlierStores, agentConfig \in AgentConfigs :
         LET r == sd_init(early, agentConfig, 2) IN
           /\ store = r.store
           /\ heap = r.heap
           /\ sd = r.sd
    /\ \E fn \in {"get_check_tpl", "_get_template_config", "_get_auto_config"},
          image \in Images, auto_conf \in BOOLEAN, kv \in StoreKVs, outs \in ReadPlans,
          cat \in Catalogs :
         /\ fn = "_get_template_config" => auto_conf = (sd.agentConfig.sd_config_backend = "None")
         \* _get_auto_config reads nothing from the store
         /\ fn = "_get_auto_config" =>
                (auto_conf /\ kv = <<"custom", Json(InitDoc), Json(InstDoc)>>
                 /\ outs = <<"absent">>)
         /\ op = [name |-> "call", fn |-> fn, image |-> image, auto_conf |-> auto_conf,
                  kv |-> kv, outs |-> outs, cat |-> cat]
    /\ run = NoRun

\* store.get_check_tpl(image, auto_conf=auto_conf)
CheckTpl ==
    /\ op.name = "call" /\ op.fn = "get_check_tpl"
    /\ store.type # "None"
    /\ LET r == get_check_tpl(store, op.image, op.auto_conf, op.kv, op.outs, op.cat) IN
        op' = [op EXCEPT !.name = "done"] @@
              [out |-> r.out, reads |-> r.reads, auto |-> r.auto, caught |-> r.caught]
    /\ UNCHANGED <<store, heap, sd, run>>

\* backend._get_template_config(image)
TemplateConfig ==
    /\ op.name = "call" /\ op.fn = "_get_template_config"
    /\ LET r == get_template_config(sd, store, op.image, op.kv, op.outs, op.cat) IN
        op' = [op EXCEPT !.name = "done"] @@
              [out |-> r.out, reads |-> r.reads, auto |-> r.auto, tpl |-> r.tpl,
               passed |-> r.auto_conf]
    /\ UNCHANGED <<store, heap, sd, run>>

\* store._get_auto_config(image)
AutoConfig ==
    /\ op.name = "call" /\ op.fn = "_get_auto_config"
    /\ store.type # "None"
    /\ op' = [op EXCEPT !.name = "done"] @@ [out |-> get_auto_config(op.image, op.cat)]
    /\ UNCHANGED <<store, heap, sd, run>>

NextTpl == CheckTpl \/ TemplateConfig \/ AutoConfig

SpecTpl == InitTpl /\ [][NextTpl]_vars

\* ------------------------------------------------- _render_template

\* The None a variable may be mapped to (an extractor that found nothing).
NoneStr == <<"<None>">>

\* Python truth of a variable's value: neither None nor ''.
IsTruthy(v) == v # NoneStr /\ v # << >>

RECURSIVE replace(_, _, _)
\* str.replace(var, value): every occurrence of token `var` replaced.
replace(toks, var, value) ==
    IF toks = << >> THEN << >>
    ELSE (IF Head(toks) = var THEN value ELSE <<Head(toks)>>)
         \o replace(Tail(toks), var, value)

\* PLACEHOLDER_REGEX.findall(str(tpl[key])): str() of a list shows the
\* text of its items, str() of a number holds no placeholder.
findall_leaf(leaf) == IF leaf.t = "num" THEN << >> ELSE findall(leaf.v)

RECURSIVE render_vars(_, _, _)
\* Lines 48-54: the loop over the placeholders found in tpl[key], `leaf`
\* being the current tpl[key].  Both branches call tpl[key].replace, which
\* only a string has; the else branch drops what replace returns.
render_vars(leaf, found, variables) ==
    IF found = << >> THEN Ret(leaf)
    ELSE IF leaf.t # "str" THEN Raise("AttributeError")
    ELSE LET var == Head(found)
             name == strip_pct(var)
         IN  IF name \in DOMAIN variables /\ IsTruthy(variables[name])
             THEN render_vars(Str(replace(leaf.v, var, variables[name])),
                              Tail(found), variables)
             ELSE render_vars(leaf, Tail(found), variables)

render_leaf(leaf, variables) == render_vars(leaf, findall_leaf(leaf), variables)

\* Lines 47-54 for one of the two mappings.
render_tpl(tpl, variables) ==
    IF \E key \in DOMAIN tpl : render_leaf(tpl[key], variables).kind = "raise"
    THEN Raise("AttributeError")
    ELSE Ret([key \in DOMAIN tpl |-> render_leaf(tpl[key], variables).val])

\* Lines 45-56: config, the two mappings once the loop has run over each
\* (`a` and `b`), unless the loop raised.
rendered_pair(a, b) ==
    IF a.kind = "raise" THEN a
    ELSE IF b.kind = "raise" THEN b
    ELSE Ret(<<a.val, b.val>>)

\* Line 50: mapping tpl once tpl[key] has been assigned for the keys of K
\* (a key whose leaf makes replace raise is never assigned).
tpl_after(tpl, variables, K) ==
    [key \in DOMAIN tpl |->
        IF key \in K /\ render_leaf(tpl[key], variables).kind = "ret"
        THEN render_leaf(tpl[key], variables).val
        ELSE tpl[key]]

\* Lines 46-47: the keys of the two mappings the loops get through.  All
\* of them when nothing raises; when a leaf raises, the keys that came
\* before it in the dict's iteration order, which the code does not fix:
\* any set of the other keys of that mapping, none of a later mapping.
keys_assigned(init_config_tpl, instance_tpl, variables) ==
    IF render_tpl(init_config_tpl, variables).kind = "raise"
    THEN { <<K1, {}>> : K1 \in SUBSET DOMAIN init_config_tpl }
    ELSE IF render_tpl(instance_tpl, variables).kind = "raise"
    THEN { <<DOMAIN init_config_tpl, K2>> : K2 \in SUBSET DOMAIN instance_tpl }
    ELSE { <<DOMAIN init_config_tpl, DOMAIN instance_tpl>> }

\* ServiceDiscoveryBackend._render_template: [init_config, instance].
render_template(init_config_tpl, instance_tpl, variables) ==
    rendered_pair(render_tpl(init_config_tpl, variables),
                  render_tpl(instance_tpl, variables))

\* ------------------------------------------------- explicit variables

RECURSIVE split(_, _)
\* str.split(sep) on a token sequence: the pieces between the separators.
split(toks, sep) ==
    IF toks = << >> THEN << << >> >>
    ELSE LET rest == split(Tail(toks), sep) IN
         IF Head(toks) = sep THEN << << >> >> \o rest
         ELSE << <<Head(toks)>> \o rest[1] >> \o Tail(rest)

\* str.startswith("datadog_")
startswith_datadog(toks) == toks # << >> /\ Head(toks) = "datadog_"

\* The key of an Env entry: v.split("=")[0]
env_key(v) == split(v, "=")[1]

RECURSIVE env_dict(_)
\* Line 198: the dict comprehension over container_conf['Env'], as the set
\* of its <<key, value>> items; a later entry replaces an earlier one of
\* the same key.
env_dict(Env) ==
    IF Env = << >> THEN {}
    ELSE LET v == Env[Len(Env)]
             before == env_dict(SubSeq(Env, 1, Len(Env) - 1))
         IN  IF startswith_datadog(env_key(v))
             THEN LET k == split(env_key(v), "datadog_")[2] IN
                  {kv \in before : kv[1] # k} \cup {<<k, split(v, "=")[2]>>}
             ELSE before

\* Line 200: the dict comprehension over container_conf['Labels'] (a
\* mapping from key to value).
labels_dict(Labels) ==
    { <<split(k, "datadog_")[2], Labels[k]>> :
        k \in {l \in DOMAIN Labels : startswith_datadog(l)} }

dict_has(d, k) == \E kv \in d : kv[1] = k

\* dict.get(k): the value, None if absent.
dict_get(d, k) == IF dict_has(d, k) THEN (CHOOSE kv \in d : kv[1] = k)[2] ELSE NoneStr

\* SDDockerBackend._get_config_space
get_config_space(container_conf) ==
    LET env_variables == env_dict(container_conf.Env)
        labels == labels_dict(container_conf.Labels)
    IN  IF dict_has(env_variables, <<"check_name">>)
        THEN [none |-> FALSE, d |-> env_variables]
        ELSE IF dict_has(labels, <<"check_name">>) THEN [none |-> FALSE, d |-> labels]
        ELSE [none |-> TRUE, d |-> {}]

\* SDDockerBackend._get_explicit_variable: `inspect` has a Config entry or
\* not (container_inspect['Config'] raises KeyError).
get_explicit_variable(inspect, var) ==
    IF ~inspect.hasConfig THEN Raise("KeyError")
    ELSE LET conf == get_config_space(inspect.Config) IN
         IF conf.none THEN Ret(NoneStr) ELSE Ret(dict_get(conf.d, var))

\* ------------------------------------------------------ host and port

RECURSIVE scan_statuses(_, _, _, _)
\* Lines 97-100: the loop over the containerStatuses of one pod whose
\* podIP is pod_ip.  A status is its containerID text, '' when the entry
\* has none.
scan_statuses(c_statuses, c_id, pod_ip, ip_addr) ==
    IF c_statuses = << >> THEN Ret(ip_addr)
    ELSE LET parts == split(Head(c_statuses), "//") IN
         IF Len(parts) < 2 THEN Raise("IndexError")
         ELSE scan_statuses(Tail(c_statuses), c_id, pod_ip,
                            IF <<c_id>> = parts[2] THEN <<pod_ip>> ELSE ip_addr)

RECURSIVE scan_pods(_, _, _)
\* Lines 91-100: the loop over pod_list['items'].
scan_pods(items, c_id, ip_addr) ==
    IF items = << >> THEN Ret(ip_addr)
    ELSE LET pod == Head(items) IN
         IF pod.podIP = "None" THEN scan_pods(Tail(items), c_id, ip_addr)
         ELSE LET r == scan_statuses(pod.containerStatuses, c_id, pod.podIP, ip_addr) IN
              IF r.kind = "raise" THEN r ELSE scan_pods(Tail(items), c_id, r.val)

\* SDDockerBackend._get_host.  `kube` is what the kubelet answers: its pod
\* list, or a failure of the request.
get_host(inspect, kube) ==
    IF IsTruthy(inspect.IPAddress) THEN Ret(inspect.IPAddress)
    ELSE IF ~kube.ok THEN Raise("ConnectionError")
    ELSE scan_pods(kube.items, inspect.Id, inspect.IPAddress)

\* A port mapping key such as "6379/tcp": key.split("/")[0]
port_of(key) == split(key, "/")[1]

\* _get_port without the fallback to Config.ExposedPorts.
get_port_mapped_only(inspect) ==
    IF inspect.Ports.state = "dict" /\ inspect.Ports.keys # << >>
    THEN Ret(port_of(inspect.Ports.keys[1]))
    ELSE IF ~inspect.hasConfig THEN Raise("KeyError")
    ELSE Ret(NoneStr)

\* SDDockerBackend._get_port.  Ports is NetworkSettings.Ports: "missing",
\* "null" or the keys of the mapping in iteration order; ExposedPorts
\* likewise ("missing" and "null" both give no port).
get_port(inspect) ==
    IF inspect.Ports.state = "dict" /\ inspect.Ports.keys # << >>
    THEN Ret(port_of(inspect.Ports.keys[1]))
    ELSE IF ~inspect.hasConfig THEN Raise("KeyError")
    ELSE IF inspect.ExposedPorts.state = "null" THEN Ret(NoneStr)
    ELSE IF inspect.ExposedPorts.state = "missing" \/ inspect.ExposedPorts.keys = << >>
    THEN Ret(NoneStr)
    ELSE Ret(port_of(inspect.ExposedPorts.keys[1]))

\* ------------------------------------------- claims on template lookup

\* What the auto-config catalog holds for an image: the template of the
\* image's check when the check and its auto_conf entry both exist, None
\* otherwise.
CatalogTemplate(image, cat) ==
    IF image \in DOMAIN AUTO_CONF_IMAGES /\ cat.hasClass /\ cat.hasConf
    THEN <<AUTO_CONF_IMAGES[image], AutoConfYaml(AUTO_CONF_IMAGES[image]).init_config,
           Json(AutoConfYaml(AUTO_CONF_IMAGES[image]).instances[1])>>
    ELSE None

CalledCheckTpl == op.name = "done" /\ op.fn = "get_check_tpl"

CalledTemplateConfig == op.name = "done" /\ op.fn = "_get_template_config"

\* C1: on every backend, when get_check_tpl(image, auto_conf=False) meets
\* KeyNotFound or a timeout on one of its three reads, it returns the
\* auto-config result of the image (the catalog template, or None) and no
\* exception escapes it.
C1_AbsentOrTimeoutFallsBack ==
    (CalledCheckTpl /\ ~op.auto_conf /\ op.caught \in {"KeyNotFound", "TimeoutError"})
        => (op.out.kind = "ret" /\ op.out.val = CatalogTemplate(op.image, op.cat))

\* C2: with no backend configured, _get_template_config reads nothing from
\* the store, passes auto_conf=True, and get_check_tpl returns the catalog
\* template of the image, or None when the catalog has none.
C2_NoBackendAutoConfOnly ==
    (CalledTemplateConfig /\ sd.agentConfig.sd_config_backend = "None")
        => /\ op.reads = << >>
           /\ op.passed
           /\ op.tpl.kind = "ret"
           /\ op.tpl.val = CatalogTemplate(op.image, op.cat)

\* C6: when a read of get_check_tpl(image, auto_conf=False) fails with an
\* error that is neither KeyNotFound nor a timeout, the call returns None
\* and _get_auto_config is not called.
C6_OtherErrorNoFallback ==
    (CalledCheckTpl /\ ~op.auto_conf
       /\ op.caught \notin {"none", "KeyNotFound", "TimeoutError"})
        => (op.out = Ret(None) /\ ~op.auto)

\* C6's case: a read failed with another error on an image whose catalog
\* entry is complete, and the call returned None.
C6_Witness ==
    /\ CalledCheckTpl /\ ~op.auto_conf
    /\ store.type = "EtcdStore"
    /\ op.caught = "Exception"
    /\ CatalogTemplate(op.image, op.cat) # None
    /\ op.out = Ret(None)

\* ------------------------------------------------- _get_check_config

\* The value of variable v with the explicit variables consulted first and
\* the built-in extractors only for what they leave undefined.
extract_value_override_first(v, inspect, kube) ==
    IF get_explicit_variable(inspect, <<v>>).kind = "ret"
       /\ get_explicit_variable(inspect, <<v>>).val # NoneStr
    THEN get_explicit_variable(inspect, <<v>>)
    ELSE CASE v = "host" -> get_host(inspect, kube)
           [] v = "port" -> get_port(inspect)
           [] OTHER -> get_explicit_variable(inspect, <<v>>)

\* Lines 148-153: the value of variable v.  VAR_MAPPING sends host to
\* _get_host and port to _get_port; every other name goes to
\* _get_explicit_variable.
extract_value(v, inspect, kube) ==
    CASE v = "host" -> get_host(inspect, kube)
      [] v = "port" -> get_port(inspect)
      [] OTHER -> get_explicit_variable(inspect, <<v>>)

RECURSIVE var_values(_, _, _, _)
RECURSIVE var_values_put(_, _, _, _, _, _)
\* Lines 146-153: var_values filled for each name of `variables`.
var_values(variables, inspect, kube, acc) ==
    IF variables = << >> THEN Ret(acc)
    ELSE var_values_put(Head(variables), extract_value(Head(variables), inspect, kube),
                        Tail(variables), inspect, kube, acc)

\* var_values[v] = r, unless the extraction raised.
var_values_put(v, r, rest, inspect, kube, acc) ==
    IF r.kind = "raise" THEN r
    ELSE var_values(rest, inspect, kube, (v :> r.val) @@ acc)

\* Line 155: the tuple returned, `r` being what _render_template gave.
finish_config(t, r) ==
    IF r.kind = "raise" THEN r ELSE Ret(<<t.val[1], r.val[1], r.val[2]>>)

\* Line 154: the template rendered with var_values (`values`).
render_config(t, values) ==
    IF values.kind = "raise" THEN values
    ELSE finish_config(t, render_template(t.val[2], t.val[3], values.val))

\* Lines 140-155 of _get_check_config, `t` being what _get_template_config
\* gave.
fill_config(t, c) ==
    IF t.kind = "raise" THEN t
    ELSE IF t.val = None THEN Ret(None)
    ELSE render_config(t, var_values(t.val[4], c.inspect, c.kube, << >>))

\* SDDockerBackend._get_check_config for container `c`: its image, whether
\* docker can inspect it and what inspect returns, and what the store, the
\* catalog and the kubelet answer while it is resolved.
get_check_config(self, cs, c, image) ==
    IF ~c.inspect_ok THEN Raise("APIError")
    ELSE fill_config(get_template_config(self, cs, image, c.kv, c.outs, c.cat).out, c)

\* Line 118: container.get('Image').split(':')[0]
image_of(c) == split(c.Image, ":")[1][1]

\* get_configs with a later init_config replacing the stored one.
add_config_last_wins(configs, conf) ==
    LET check_name == conf[1] IN
    IF check_name \notin DOMAIN configs
    THEN (check_name :> <<conf[2], <<conf[3]>>>>) @@ configs
    ELSE [configs EXCEPT ![check_name] = <<conf[2], Append(@[2], conf[3])>>]

\* Lines 123-132 of get_configs: one configuration added to configs.
add_config(configs, conf) ==
    LET check_name == conf[1] IN
    IF check_name \notin DOMAIN configs
    THEN (check_name :> <<conf[2], <<conf[3]>>>>) @@ configs
    ELSE [configs EXCEPT ![check_name] = <<@[1], Append(@[2], conf[3])>>]

\* --------------------------------------- inputs of the backend's helpers

Leaves ==
    { Str(<<"%%host%%">>), Str(<<"http://", "%%host%%", ":", "%%port%%">>),
      Str(<<"plain">>), Num, List(<<"%%tags%%">>), List(<<"static">>),
      Str(<<"%%env%%", "-", "%%env%%">>) }

RenderInitDocs == { << >> } \cup { [tag |-> l] : l \in Leaves }

RenderInstDocs == [{"host", "url"} -> Leaves]

\* The values a variable may take: None, the empty string, plain text, and
\* text that itself holds a placeholder.
VarVals == { NoneStr, << >>, <<"10.0.0.5">>, <<"%%env%%">>, <<"%%port%%">> }

VarMaps == UNION { [D -> VarVals] : D \in SUBSET {"host", "port", "env"} }

EnvEntries ==
    { <<"datadog_", "check_name", "=", "redisdb">>,
      <<"datadog_", "tags", "=", "a">>,
      <<"datadog_", "tags", "=", "env", "=", "prod">>,
      <<"datadog_", "x_", "datadog_", "y", "=", "v">>,
      <<"datadog_", "check_name", "datadog_", "y", "=", "v">>,
      <<"PATH", "=", "/bin">> }

EnvLists ==
    { << >> } \cup { <<a>> : a \in EnvEntries }
    \cup { <<a, b>> : a \in EnvEntries, b \in EnvEntries }

LabelCheck == <<"datadog_", "check_name">> :> <<"nginx">>

LabelTags == <<"datadog_", "tags">> :> <<"l">>

LabelOther == <<"com.example.role">> :> <<"web">>

LabelMaps ==
    { << >>, LabelCheck, LabelTags, LabelOther, LabelCheck @@ LabelTags,
      LabelCheck @@ LabelOther, LabelCheck @@ LabelTags @@ LabelOther }

ExplicitVars == { <<"tags">>, <<"check_name">>, <<"x_", "datadog_", "y">>, <<"x_">> }

NoPorts == [state |-> "missing", keys |-> << >>]

\* A docker inspect object: the parts of it the backend reads.
Inspect(id, ip, ports, exposed, hasConfig, env, labels) ==
    [Id |-> id, IPAddress |-> ip, Ports |-> ports, ExposedPorts |-> exposed,
     hasConfig |-> hasConfig, Config |-> [Env |-> env, Labels |-> labels]]

Pods ==
    { [podIP |-> "10.1.0.7", containerStatuses |-> << <<"docker:", "//", "c1">> >>],
      [podIP |-> "10.1.0.8", containerStatuses |-> << <<"docker:", "//", "c2">> >>],
      [podIP |-> "10.1.0.9",
       containerStatuses |-> << <<"docker:", "//", "c2">>, <<"docker:", "//", "c1">> >>],
      [podIP |-> "None", containerStatuses |-> << <<"docker:", "//", "c1">> >>],
      [podIP |-> "10.1.0.5", containerStatuses |-> << << >> >>],
      [podIP |-> "10.1.0.6", containerStatuses |-> << <<"c1">> >>] }

PodLists ==
    { << >> } \cup { <<a>> : a \in Pods } \cup { <<a, b>> : a \in Pods, b \in Pods }

Kubelets == { [ok |-> TRUE, items |-> l] : l \in PodLists } \cup { [ok |-> FALSE, items |-> << >>] }

PortStates ==
    { NoPorts, [state |-> "null", keys |-> << >>], [state |-> "dict", keys |-> << >>],
      [state |-> "dict", keys |-> << <<"6379", "/", "tcp">> >>],
      [state |-> "dict", keys |-> << <<"80", "/", "tcp">>, <<"443", "/", "tcp">> >>] }

\* ------------------------------------ the helpers: one call per behaviour

InitFn ==
    /\ store = NoStore
    /\ heap = 0
    /\ sd = NoSD
    /\ run = NoRun
    /\ \/ \E a \in RenderInitDocs, b \in RenderInstDocs, v \in VarMaps :
            op = [name |-> "call", fn |-> "_render_template", init_config_tpl |-> a,
                  instance_tpl |-> b, variables |-> v]
       \/ \E env \in EnvLists, labels \in LabelMaps, var \in ExplicitVars :
            op = [name |-> "call", fn |-> "_get_explicit_variable",
                  inspect |-> Inspect("c1", NoneStr, NoPorts, NoPorts, TRUE, env, labels),
                  var |-> var]
       \/ \E ip \in {NoneStr, << >>, <<"172.17.0.2">>}, kube \in Kubelets :
            op = [name |-> "call", fn |-> "_get_host",
                  inspect |-> Inspect("c1", ip, NoPorts, NoPorts, TRUE, << >>, << >>),
                  kube |-> kube]
       \/ \E ports \in PortStates, exposed \in PortStates, hasConfig \in BOOLEAN :
            op = [name |-> "call", fn |-> "_get_port",
                  inspect |-> Inspect("c1", NoneStr, ports, exposed, hasConfig, << >>, << >>)]

\* backend._render_template(init_config_tpl, instance_tpl, variables).
\* The call assigns to tpl[key] in the mappings it is given (line 50) and
\* returns those objects: afterwards the arguments hold what was assigned.
\* `given` keeps what they held at the call.
Render ==
    /\ op.name = "call" /\ op.fn = "_render_template"
    /\ \E K1 \in SUBSET DOMAIN op.init_config_tpl, K2 \in SUBSET DOMAIN op.instance_tpl :
         /\ <<K1, K2>> \in keys_assigned(op.init_config_tpl, op.instance_tpl, op.variables)
         /\ op' = [op EXCEPT !.name = "done",
                             !.init_config_tpl = tpl_after(@, op.variables, K1),
                             !.instance_tpl = tpl_after(@, op.variables, K2)] @@
                  [out |-> render_template(op.init_config_tpl, op.instance_tpl,
                                           op.variables),
                   given |-> <<op.init_config_tpl, op.instance_tpl>>]
    /\ UNCHANGED <<store, heap, sd, run>>

\* backend._render_template called again with the same objects and the same
\* variables, after a call that returned.
RenderAgain ==
    /\ op.name = "done" /\ op.fn = "_render_template" /\ op.out.kind = "ret"
    /\ \E K1 \in SUBSET DOMAIN op.init_config_tpl, K2 \in SUBSET DOMAIN op.instance_tpl :
         /\ <<K1, K2>> \in keys_assigned(op.init_config_tpl, op.instance_tpl, op.variables)
         /\ op' = [op EXCEPT !.name = "again",
                             !.init_config_tpl = tpl_after(@, op.variables, K1),
                             !.instance_tpl = tpl_after(@, op.variables, K2)] @@
                  [out2 |-> render_template(op.init_config_tpl, op.instance_tpl,
                                            op.variables)]
    /\ UNCHANGED <<store, heap, sd, run>>

\* backend._get_explicit_variable(inspect, var)
ExplicitVariable ==
    /\ op.name = "call" /\ op.fn = "_get_explicit_variable"
    /\ op' = [op EXCEPT !.name = "done"] @@
             [out |-> get_explicit_variable(op.inspect, op.var)]
    /\ UNCHANGED <<store, heap, sd, run>>

\* backend._get_host(inspect)
Host ==
    /\ op.name = "call" /\ op.fn = "_get_host"
    /\ op' = [op EXCEPT !.name = "done"] @@ [out |-> get_host(op.inspect, op.kube)]
    /\ UNCHANGED <<store, heap, sd, run>>

\* backend._get_port(inspect)
Port ==
    /\ op.name = "call" /\ op.fn = "_get_port"
    /\ op' = [op EXCEPT !.name = "done"] @@ [out |-> get_port(op.inspect)]
    /\ UNCHANGED <<store, heap, sd, run>>

NextFn == Render \/ RenderAgain \/ ExplicitVariable \/ Host \/ Port

SpecFn == InitFn /\ [][NextFn]_vars

\* --------------------------------------------- claims on the helpers

Called(fn) == op.name = "done" /\ op.fn = fn

\* A variable the map gives no usable value for.
Unresolved(variables, name) == name \notin DOMAIN variables \/ ~IsTruthy(variables[name])

TokensOf(toks) == { toks[i] : i \in 1..Len(toks) }

\* C3: in what _render_template returns, no string leaf of init_config or
\* instance still holds a placeholder whose variable is absent from the
\* map or mapped to an empty or undefined value.
C3_UnresolvedReplacedByEmpty ==
    (Called("_render_template") /\ op.out.kind = "ret") =>
        \A i \in 1..2 : \A key \in DOMAIN op.out.val[i] :
            op.out.val[i][key].t = "str" =>
                \A tok \in TokensOf(op.out.val[i][key].v) :
                    IsPlaceholder(tok) => ~Unresolved(op.variables, strip_pct(tok))

\* C7: _render_template returns a pair, whatever the leaves (strings,
\* numbers, lists) and the variables map: it never raises.
C7_RenderNeverRaises ==
    Called("_render_template") => op.out.kind = "ret"

RECURSIVE after_first(_, _)
\* The text after the first `sep` of a token sequence that holds one.
after_first(toks, sep) ==
    IF Head(toks) = sep THEN Tail(toks) ELSE after_first(Tail(toks), sep)

\* The value the environment entries give variable `var`: that of the last
\* entry named datadog_<var>, None when there is none.
EnvLookup(Env, var) ==
    LET I == { i \in 1..Len(Env) : env_key(Env[i]) = <<"datadog_">> \o var } IN
    IF I = {} THEN NoneStr
    ELSE after_first(Env[CHOOSE i \in I : \A j \in I : j <= i], "=")

LabelLookup(Labels, var) ==
    IF (<<"datadog_">> \o var) \in DOMAIN Labels THEN Labels[<<"datadog_">> \o var]
    ELSE NoneStr

\* C8: explicit variables come from one source: the datadog_-stripped
\* environment entries when the environment has a datadog_check_name
\* entry, else the stripped labels when the labels have one, else nothing.
C8_OneExplicitSource ==
    Called("_get_explicit_variable") =>
        LET Env == op.inspect.Config.Env
            Labels == op.inspect.Config.Labels
            name == <<"datadog_", "check_name">>
        IN  op.out =
              Ret(IF \E i \in 1..Len(Env) : env_key(Env[i]) = name
                  THEN EnvLookup(Env, op.var)
                  ELSE IF name \in DOMAIN Labels THEN LabelLookup(Labels, op.var)
                  ELSE NoneStr)

\* A pod that has a podIP and a containerStatuses entry <runtime>//<id> of
\* container c_id.
PodMatches(pod, c_id) ==
    /\ pod.podIP # "None"
    /\ \E i \in 1..Len(pod.containerStatuses) :
         LET parts == split(pod.containerStatuses[i], "//") IN
         Len(parts) = 2 /\ parts[2] = <<c_id>>

\* C9: without a direct network address, _get_host returns the podIP of a
\* pod of the kubelet's list that holds the container, and returns
\* undefined, without raising, when no pod matches.
C9_HostFromPodList ==
    (Called("_get_host") /\ ~IsTruthy(op.inspect.IPAddress) /\ op.kube.ok) =>
        LET M == { i \in 1..Len(op.kube.items) : PodMatches(op.kube.items[i], op.inspect.Id) }
        IN  /\ op.out.kind = "ret"
            /\ IF M = {} THEN ~IsTruthy(op.out.val)
               ELSE \E i \in M : op.out.val = <<op.kube.items[i].podIP>>

\* ------------------------------------------------ one get_configs pass

EnvProd == << <<"datadog_", "check_name", "=", "custom">>, <<"datadog_", "env", "=", "prod">> >>

\* Explicit variables that name host and port too.
EnvOverrides ==
    << <<"datadog_", "check_name", "=", "custom">>, <<"datadog_", "env", "=", "prod">>,
       <<"datadog_", "host", "=", "10.9.9.9">>, <<"datadog_", "port", "=", "99">> >>

EnvStaging == << <<"datadog_", "check_name", "=", "custom">>, <<"datadog_", "env", "=", "staging">> >>

StoredTemplate == <<"custom", Json(InitDoc), Json(InstDoc)>>

RedisPorts == [state |-> "dict", keys |-> << <<"6379", "/", "tcp">> >>]

NoKubelet == [ok |-> FALSE, items |-> << >>]

Container(image, id, inspect_ok, inspect, kv, outs, cat, kube) ==
    [Image |-> image, Id |-> id, inspect_ok |-> inspect_ok, inspect |-> inspect,
     kv |-> kv, outs |-> outs, cat |-> cat, kube |-> kube]

FullCatalog == [hasClass |-> TRUE, hasConf |-> TRUE]

\* The containers docker may report, each with what its resolution meets.
Containers ==
    { Container(<<"redis", ":", "3.0">>, "c1", TRUE,
                Inspect("c1", <<"172.17.0.2">>, RedisPorts, NoPorts, TRUE, EnvProd, << >>),
                StoredTemplate, <<"value", "value", "value">>, FullCatalog, NoKubelet),
      Container(<<"redis">>, "c2", TRUE,
                Inspect("c2", <<"172.17.0.3">>, RedisPorts, NoPorts, TRUE, EnvStaging, << >>),
                StoredTemplate, <<"value", "value", "value">>, FullCatalog, NoKubelet),
      Container(<<"mysql", ":", "5.7">>, "c3", TRUE,
                Inspect("c3", <<"172.17.0.4">>, NoPorts, NoPorts, TRUE, << >>, << >>),
                StoredTemplate, <<"absent">>, FullCatalog, NoKubelet),
      Container(<<"nginx">>, "c4", FALSE,
                Inspect("c4", NoneStr, NoPorts, NoPorts, TRUE, << >>, << >>),
                StoredTemplate, <<"absent">>, FullCatalog, NoKubelet),
      Container(<<"nginx", ":", "1.9">>, "c5", TRUE,
                Inspect("c5", <<"172.17.0.5">>,
                        [state |-> "dict", keys |-> << <<"80", "/", "tcp">> >>], NoPorts,
                        TRUE, << >>, << >>),
                StoredTemplate, <<"value", "timeout">>, FullCatalog, NoKubelet),
      Container(<<"redis">>, "c6", TRUE,
                Inspect("c6", NoneStr, NoPorts, RedisPorts, TRUE, << >>, << >>),
                StoredTemplate, <<"absent">>, FullCatalog,
                [ok |-> TRUE,
                 items |-> << [podIP |-> "10.1.0.7",
                               containerStatuses |-> << <<"docker:", "//", "c6">> >>] >>]),
      Container(<<"redis">>, "c7", TRUE,
                Inspect("c7", <<"172.17.0.7">>, RedisPorts, NoPorts, TRUE, << >>, << >>),
                <<"custom", BadJson, Json(InstDoc)>>, <<"value", "value", "value">>,
                FullCatalog, NoKubelet),
      Container(<<"nginx", ":", "1.9">>, "c8", TRUE,
                Inspect("c8", <<"172.17.0.8">>, RedisPorts, NoPorts, TRUE, << >>, << >>),
                <<"custom", Json(InitDoc), BadJson>>, <<"value", "value", "value">>,
                FullCatalog, NoKubelet),
      Container(<<"redis">>, "c9", TRUE,
                Inspect("c9", NoneStr, NoPorts, NoPorts, TRUE, EnvOverrides, << >>),
                StoredTemplate, <<"value", "value", "value">>, FullCatalog,
                [ok |-> TRUE, items |-> << >>]) }

RECURSIVE SeqsUpTo(_, _)
SeqsUpTo(S, n) ==
    IF n = 0 THEN { << >> }
    ELSE LET shorter == SeqsUpTo(S, n - 1) IN
         shorter \cup { Append(q, x) : q \in shorter, x \in S }

InitPass ==
    /\ \E agentConfig \in {a \in AgentConfigs : a.sd_backend_host = "unset"
                                                /\ a.sd_template_dir = SD_TEMPLATE_DIR} :
         LET r == sd_init(NoStore, agentConfig, 0) IN
           /\ store = r.store
           /\ heap = r.heap
           /\ sd = r.sd
    /\ op = [name |-> "init"]
    /\ run = NoRun

RECURSIVE get_configs_loop(_, _, _, _, _)
RECURSIVE loop_turn(_, _, _, _, _, _)
\* get_configs, lines 121-134: the loop over the containers left (todo),
\* then return configs.  The result carries, beside what the call returns
\* or raises (out), the containers the loop got through (done).
get_configs_loop(self, cs, todo, done, configs) ==
    IF todo = << >> THEN [out |-> Ret(configs), done |-> done]
    ELSE loop_turn(self, cs, todo, done, configs,
                   get_check_config(self, cs, Head(todo), image_of(Head(todo))))

\* Lines 122-132: one turn of the loop, `conf` being what _get_check_config
\* gave.  Nothing catches an exception of _get_check_config: it leaves
\* get_configs, and configs with it.
loop_turn(self, cs, todo, done, configs, conf) ==
    IF conf.kind = "raise" THEN [out |-> conf, done |-> done]
    ELSE get_configs_loop(self, cs, Tail(todo), Append(done, Head(todo)),
                          IF conf.val = None THEN configs
                          ELSE add_config(configs, conf.val))

\* SDDockerBackend.get_configs over the containers docker reports.
get_configs(self, cs, containers) == get_configs_loop(self, cs, containers, << >>, << >>)

\* backend.get_configs()
GetConfigs(containers) ==
    /\ run.pc = "idle" /\ op.name = "init"
    /\ LET r == get_configs(sd, store, containers) IN
         run' = [pc |-> "done", containers |-> containers, done |-> r.done, out |-> r.out]
    /\ op' = [name |-> "get_configs"]
    /\ UNCHANGED <<store, heap, sd>>

\* Lines 146-153 of _get_check_config: var_values once the loop over the
\* variables of template `t` has run (empty when there is no template).
config_values(t, c) ==
    IF t.kind = "raise" \/ t.val = None THEN Ret(<< >>)
    ELSE var_values(t.val[4], c.inspect, c.kube, << >>)

\* backend._get_check_config(c_id, image) for container c; var_values is
\* the local mapping the call builds.
CheckConfig(c) ==
    /\ run.pc = "idle" /\ op.name = "init"
    /\ op' = [name |-> "done", fn |-> "_get_check_config", c |-> c,
              out |-> get_check_config(sd, store, c, image_of(c)),
              var_values |->
                  config_values(get_template_config(sd, store, image_of(c), c.kv, c.outs,
                                                    c.cat).out, c)]
    /\ UNCHANGED <<store, heap, sd, run>>

NextPass ==
    \/ \E containers \in SeqsUpTo(Containers, MaxContainers) : GetConfigs(containers)
    \/ \E c \in Containers : CheckConfig(c)

SpecPass == InitPass /\ [][NextPass]_vars

\* ------------------------------------------------- claims on the pass

\* What _get_check_config gives for container c in the current backend.
ConfOf(c) == get_check_config(sd, store, c, image_of(c))

\* The containers of sequence q that ConfOf resolves to a configuration.
RECURSIVE Configured(_)
Configured(q) ==
    IF q = << >> THEN << >>
    ELSE IF ConfOf(Head(q)).kind = "ret" /\ ConfOf(Head(q)).val # None
         THEN <<Head(q)>> \o Configured(Tail(q))
         ELSE Configured(Tail(q))

\* The instances of the configurations of q named check_name, in order.
RECURSIVE InstancesOf(_, _)
InstancesOf(q, check_name) ==
    IF q = << >> THEN << >>
    ELSE IF ConfOf(Head(q)).val[1] = check_name
         THEN <<ConfOf(Head(q)).val[3]>> \o InstancesOf(Tail(q), check_name)
         ELSE InstancesOf(Tail(q), check_name)

\* The first container of q whose configuration is named check_name.
RECURSIVE FirstOf(_, _)
FirstOf(q, check_name) ==
    IF ConfOf(Head(q)).val[1] = check_name THEN Head(q) ELSE FirstOf(Tail(q), check_name)

PassDone == run.pc = "done"

\* C4: a pass returns a result whatever happens to one container, and the
\* result holds the instance of every container that resolves.
C4_FailureLeavesOthersConfigured ==
    PassDone =>
        /\ run.out.kind = "ret"
        /\ \A i \in 1..Len(run.containers) :
             LET conf == ConfOf(run.containers[i]) IN
             (conf.kind = "ret" /\ conf.val # None) =>
                /\ conf.val[1] \in DOMAIN run.out.val
                /\ \E k \in 1..Len(run.out.val[conf.val[1]][2]) :
                     run.out.val[conf.val[1]][2][k] = conf.val[3]

\* C5: the result of a pass has one entry per check_name of a configured
\* container: the init_config of the first such container and the
\* instances of all of them in observation order; a container without a
\* template adds nothing.
C5_FirstInitConfigInstancesInOrder ==
    (PassDone /\ run.out.kind = "ret") =>
        LET q == Configured(run.containers) IN
        /\ DOMAIN run.out.val = { ConfOf(q[i]).val[1] : i \in 1..Len(q) }
        /\ \A check_name \in DOMAIN run.out.val :
             /\ run.out.val[check_name][1] = ConfOf(FirstOf(q, check_name)).val[2]
             /\ run.out.val[check_name][2] = InstancesOf(q, check_name)

\* A pass that returned, with two containers of one check_name whose
\* init_config differ and a container without a template.
C5_Witness ==
    /\ PassDone /\ run.out.kind = "ret"
    /\ \E i, j \in 1..Len(run.containers) :
         /\ i < j
         /\ ConfOf(run.containers[i]).val # None /\ ConfOf(run.containers[j]).val # None
         /\ ConfOf(run.containers[i]).val[1] = ConfOf(run.containers[j]).val[1]
         /\ ConfOf(run.containers[i]).val[2] # ConfOf(run.containers[j]).val[2]
         /\ Len(run.out.val[ConfOf(run.containers[i]).val[1]][2]) = 2
    /\ \E k \in 1..Len(run.containers) : ConfOf(run.containers[k]).val = None

\* -------------------------------------------- claims on the singleton

\* A ConfigStore(agentConfig=...) call that follows a construction with no
\* _drop since: the last operation was a construction or a get_client.
Reconstructed ==
    op'.name = "ConfigStore" /\ op.name \in {"ConfigStore", "get_client"}

\* C10: with no _drop in between, every construction returns the object
\* the earlier ones returned and leaves its backend type alone, and
\* get_client(reset=True) returns a new client built from the store's
\* settings and changes nothing of the store but its client.
C10_OneStoreResetKeepsSettings ==
    [][ /\ Reconstructed => (op'.ret = store.id /\ store'.type = store.type)
        /\ (op'.name = "get_client" /\ op'.reset) =>
              /\ op'.out.kind = "ret"
              /\ op'.out.val.id # store.client.id
              /\ op'.out.val.settings = store.settings
              /\ store' = [store EXCEPT !.client = op'.out.val] ]_vars

\* ------------------------------------------- further claims on lookup

\* C11: on the stub store, get_check_tpl(image, auto_conf=False) returns
\* what get_check_tpl(image, auto_conf=True) returns for the image: the
\* stub reports absence and the call falls through to auto-config.
C11_StubFallsThroughToAutoConfig ==
    (CalledCheckTpl /\ store.type = "StubStore" /\ ~op.auto_conf) =>
        /\ op.auto
        /\ op.out = get_check_tpl(store, op.image, TRUE, op.kv, op.outs, op.cat).out

\* ------------------------------------------- further claims on the pass

\* Container c's template comes from the store, and its init_config or
\* instance text does not decode.
FetchedBadJson(c) ==
    /\ store.type \in {"EtcdStore", "ConsulStore"}
    /\ c.inspect_ok
    /\ c.outs = <<"value", "value", "value">>
    /\ (~c.kv[2].valid \/ ~c.kv[3].valid)

RECURSIVE WithoutBadJson(_)
\* Sequence q of containers without those of FetchedBadJson.
WithoutBadJson(q) ==
    IF q = << >> THEN << >>
    ELSE IF FetchedBadJson(Head(q)) THEN WithoutBadJson(Tail(q))
    ELSE <<Head(q)>> \o WithoutBadJson(Tail(q))

\* C12: for a container whose fetched init_config or instance is not
\* valid JSON, _get_template_config returns None without consulting
\* auto-config, the container gets no configuration, and the pass goes on:
\* its outcome is that of the pass over the other containers.
C12_BadJsonLeavesContainerUnconfigured ==
    PassDone =>
        /\ \A i \in 1..Len(run.containers) :
             LET c == run.containers[i]
                 t == get_template_config(sd, store, image_of(c), c.kv, c.outs, c.cat)
             IN  FetchedBadJson(c) =>
                    /\ t.out = Ret(None)
                    /\ ~t.auto
                    /\ ConfOf(c) = Ret(None)
        /\ run.out = get_configs(sd, store, WithoutBadJson(run.containers)).out

\* A pass that returned a configuration for a container that came after
\* one whose fetched JSON does not decode and whose image has an
\* auto-config entry.
C12_Witness ==
    /\ PassDone /\ run.out.kind = "ret"
    /\ \E i, j \in 1..Len(run.containers) :
         /\ i < j
         /\ FetchedBadJson(run.containers[i])
         /\ image_of(run.containers[i]) \in DOMAIN AUTO_CONF_IMAGES
         /\ ~FetchedBadJson(run.containers[j])
         /\ ConfOf(run.containers[j]).val # None
         /\ ConfOf(run.containers[j]).val[1] \in DOMAIN run.out.val

\* ----------------------------------------- further claims on rendering

\* The names of the placeholders in the string leaves of mapping tpl.
PlaceholdersOf(tpl) ==
    { strip_pct(tok) : tok \in UNION { { t \in TokensOf(tpl[key].v) : IsPlaceholder(t) } :
                                         key \in { k \in DOMAIN tpl : tpl[k].t = "str" } } }

\* Every placeholder of the template given to the call has a non-empty
\* value in the variables map.
FullyResolved ==
    \A name \in PlaceholdersOf(op.given[1]) \cup PlaceholdersOf(op.given[2]) :
        ~Unresolved(op.variables, name)

\* C13: rendering a template twice with one variables map that gives every
\* placeholder a non-empty value returns the same output both times.
C13_RenderTwiceSameOutput ==
    (op.name = "again" /\ FullyResolved) => op.out2 = op.out

\* ------------------------------------- further claims on the extractors

\* A ports mapping of an inspect object that holds at least one entry.
HasPorts(ports) == ports.state = "dict" /\ ports.keys # << >>

\* C14: for an inspect object that has its Config, _get_port returns the
\* port number of the first NetworkSettings.Ports mapping; without one
\* (key missing, null or empty) that of the first Config.ExposedPorts
\* entry; without that either, undefined.  It raises in none of these
\* cases.
C14_PortFromMappingOrExposed ==
    (Called("_get_port") /\ op.inspect.hasConfig) =>
        op.out = Ret(IF HasPorts(op.inspect.Ports)
                     THEN <<Head(op.inspect.Ports.keys[1])>>
                     ELSE IF HasPorts(op.inspect.ExposedPorts)
                     THEN <<Head(op.inspect.ExposedPorts.keys[1])>>
                     ELSE NoneStr)

\* _get_port returned the first exposed port of a container whose
\* NetworkSettings.Ports is null.
C14_Witness ==
    /\ Called("_get_port") /\ op.inspect.hasConfig
    /\ op.inspect.Ports.state = "null"
    /\ HasPorts(op.inspect.ExposedPorts)
    /\ op.out = Ret(<<"80">>)

\* -------------------------------------------- claims on auto-config

\* C15: _get_auto_config returns the catalog's triple for a known image
\* whose check has a class and an auto_conf entry, and returns None,
\* without raising, for an unknown image, a missing check class or a
\* check get_auto_conf has no entry for.
C15_AutoConfigTripleOrNone ==
    (op.name = "done" /\ op.fn = "_get_auto_config") =>
        op.out = Ret(CatalogTemplate(op.image, op.cat))

RECURSIVE Substituted(_, _)
\* Text toks with every placeholder token that has a non-empty value in
\* the variables map replaced by that value, the other tokens kept.
Substituted(toks, variables) ==
    IF toks = << >> THEN << >>
    ELSE (IF IsPlaceholder(Head(toks)) /\ ~Unresolved(variables, strip_pct(Head(toks)))
          THEN variables[strip_pct(Head(toks))]
          ELSE <<Head(toks)>>)
         \o Substituted(Tail(toks), variables)

\* C16: in what _render_template returns, every string leaf is the leaf of
\* the template with each occurrence of a placeholder that has a non-empty
\* value replaced by the value and the rest of the text unchanged; a
\* template without placeholders comes back unchanged.
C16_ResolvedPlaceholdersReplaced ==
    (Called("_render_template") /\ op.out.kind = "ret") =>
        \A i \in 1..2 : \A key \in DOMAIN op.given[i] :
            op.given[i][key].t = "str" =>
                op.out.val[i][key] = Str(Substituted(op.given[i][key].v, op.variables))

\* ------------------------------------- further claims on template lookup

\* The three paths get_check_tpl reads for an image, in order.
StorePaths(image) ==
    <<tpl_path(store, image, "check_name"), tpl_path(store, image, "init_config"),
      tpl_path(store, image, "instance")>>

\* _get_template_config has run with a backend configured and a store.
ResolvedWithBackend ==
    /\ CalledTemplateConfig
    /\ sd.agentConfig.sd_config_backend # "None"
    /\ store.type # "None"

C18_UnsupportedBackendFails ==
    (op.name = "ConfigStore"
       /\ op.agentConfig.sd_config_backend \notin {"etcd", "consul", "None"})
        => op.out = Raise("UnsupportedBackend")

\* --------------------------------------- claims on _get_check_config

\* _get_check_config got as far as a complete var_values for a template.
ValuesBuilt ==
    /\ op.name = "done" /\ op.fn = "_get_check_config"
    /\ op.c.inspect_ok
    /\ op.var_values.kind = "ret"

\* C19: the value of host is what _get_host returns and that of port what
\* _get_port returns, whatever the explicit variables hold; the value of
\* any other name is what the explicit-variable lookup returns.
C19_OnePathPerName ==
    ValuesBuilt =>
        \A v \in DOMAIN op.var_values.val :
            op.var_values.val[v] =
                (CASE v = "host" -> get_host(op.c.inspect, op.c.kube).val
                   [] v = "port" -> get_port(op.c.inspect).val
                   [] OTHER -> get_explicit_variable(op.c.inspect, <<v>>).val)

\* The extractors left host and port undefined for a container whose
\* environment names datadog_host and datadog_port, and env came from the
\* environment.
C19_Witness ==
    /\ ValuesBuilt
    /\ DOMAIN op.var_values.val = {"host", "port", "env"}
    /\ get_explicit_variable(op.c.inspect, <<"host">>) = Ret(<<"10.9.9.9">>)
    /\ get_explicit_variable(op.c.inspect, <<"port">>) = Ret(<<"99">>)
    /\ op.var_values.val["host"] = NoneStr
    /\ op.var_values.val["port"] = NoneStr
    /\ op.var_values.val["env"] = <<"prod">>

\* C20: after _render_template returns, the two template mappings it was
\* given hold what they held before the call.
C20_TemplatesLeftUnchanged ==
    (Called("_render_template") /\ op.name = "done" /\ op.out.kind = "ret")
        => /\ op.init_config_tpl = op.given[1]
           /\ op.instance_tpl = op.given[2]

\* --------------------------- claims on re-construction and on sources

\* C21: a ConfigStore(agentConfig=...) call made while the singleton
\* exists, with the same or another configuration, returns the existing
\* store and leaves its settings, sd_template_dir and client object as they
\* were.
C21_ReconstructionChangesNothing ==
    [][ (store.type # "None" /\ op'.name = "ConfigStore") =>
            /\ op'.ret = store.id
            /\ store'.settings = store.settings
            /\ store'.sd_template_dir = store.sd_template_dir
            /\ store'.client = store.client ]_vars

\* get_check_tpl(image, auto_conf=False) ran on an etcd or consul store and
\* a read failed after at least one read had succeeded.
LaterReadFailed ==
    /\ CalledCheckTpl /\ ~op.auto_conf
    /\ store.type \in {"EtcdStore", "ConsulStore"}
    /\ Len(op.outs) >= 2
    /\ op.outs[Len(op.outs)] # "value"

\* C22: a template get_check_tpl returns is whole: either the three values
\* read from the store, all three reads having succeeded and the catalog
\* not consulted, or the three values of the catalog.  When a read fails
\* after earlier reads succeeded, no key after it is read and the result
\* holds nothing of what was read: it is the catalog's template or None.
C22_TemplateFromOneSource ==
    /\ (CalledCheckTpl /\ op.out.kind = "ret" /\ op.out.val # None) =>
          \/ /\ op.out.val = op.kv
             /\ ~op.auto
             /\ op.reads = StorePaths(op.image)
             /\ \A i \in 1..3 : op.outs[i] = "value"
          \/ /\ op.out.val = CatalogTemplate(op.image, op.cat)
             /\ op.auto
    /\ LaterReadFailed =>
          /\ op.reads = SubSeq(StorePaths(op.image), 1, Len(op.outs))
          /\ op.out.kind = "ret" =>
                op.out.val \in {None, CatalogTemplate(op.image, op.cat)}

\* check_name and init_config were read, instance was absent, and the call
\* returned the catalog's template, which shares no value with the store's.
C22_Witness ==
    /\ LaterReadFailed
    /\ op.outs = <<"value", "value", "absent">>
    /\ op.out.kind = "ret" /\ op.out.val # None
    /\ op.out.val = CatalogTemplate(op.image, op.cat)
    /\ \A i \in 1..3 : op.out.val[i] # op.kv[i]

====
